---- MODULE Spec2Model ----
(***************************************************************************)
(* Model of the message scheduler: the schedule model (src/src/model.rs),  *)
(* the in-memory repository (src/src/repository_in_memory.rs) and the      *)
(* scheduling engine and facade (src/src/scheduler.rs).                    *)
(*                                                                         *)
(* Instants are integers (ticks of the clock), durations are integers.     *)
(* An Option<T> is a sequence of length 0 (None) or 1 (Some).              *)
(***************************************************************************)
EXTENDS Integers, Sequences, FiniteSets, TLC

VARIABLES
    schedules,   \* RepositoryInMemory.schedules: Vec<MessageSchedule>
    clock,       \* the value (self.now)() returns
    pc,          \* per engine: "sleep" | "batch" | "reconcile" | "panicked"
    batch,       \* per engine: the polled schedules process_batch still has to visit
    txres,       \* per engine: result of transmitter.transmit for the head of batch
    log,         \* per engine: calls and metric events of its current (or last) tick
    engines,     \* the engine instances that run against the repository
    faults,      \* injected failures so far: transmitter (tx), repository update after a
                 \* transmit (repo), poll_batch (poll), store_schedule (store), engine stops
                 \* (stop); allowed is the number of failures the run may see
    calls,       \* per id: number of transmitter.transmit invocations
    delivered,   \* per id: number of transmitter.transmit invocations that returned Ok
    advanced,    \* per id: number of advance updates (mark_done / set_next_periodic) that returned Ok
    ingested,    \* per id: the pattern the schedule was created with (<<>> when none)
    fired,       \* per id: the occurrences (instants) transmitter.transmit was invoked for
    facade       \* the last MessageScheduler::schedule call: its calls, metric and result

vars == <<schedules, clock, pc, batch, txres, log, engines, faults,
          calls, delivered, advanced, ingested, fired, facade>>

----------------------------------------------------------------------------
(* Bounds *)

MaxSchedules == 2

MaxClock == 2

MaxFaults == 1

MaxCalls == 4

(* the model's width of u32 and i32 (32 bits in the code) *)
U32Bits == 4

(* Program constants *)

BATCH_SIZE == 100

Ids == 1..MaxSchedules

AllEngines == {1, 2}

----------------------------------------------------------------------------
(* Option and Repeat *)

None == << >>

Some(x) == << x >>

Infinitely == [tag |-> "Infinitely", n |-> 0]

Times(n) == [tag |-> "Times", n |-> n]

(* u32::MAX *)
U32Max == 2 ^ U32Bits - 1

(* u32 as i32: Rust's wrapping cast (values above i32::MAX wrap to negatives) *)
AsI32(u) == IF u < 2 ^ (U32Bits - 1) THEN u ELSE u - 2 ^ U32Bits

----------------------------------------------------------------------------
(* model.rs: patterns and the next-fire computation *)

Delayed(transmit_at) == [kind |-> "Delayed", transmit_at |-> transmit_at]

Interval(first_transmission, interval, repeat) ==
    [kind |-> "Interval", first_transmission |-> first_transmission,
     interval |-> interval, repeat |-> repeat]

(* A cron expression is modelled by its period and the last instant it     *)
(* names (an expression with a year field names finitely many instants):   *)
(* its occurrences are the positive multiples of every up to last.         *)
CronSchedule(every, last) == [every |-> every, last |-> last]

Cron(first_transmission_after, schedule, repeat) ==
    [kind |-> "Cron", first_transmission_after |-> first_transmission_after,
     schedule |-> schedule, repeat |-> repeat]

(* cron::Schedule::after(t).nth(k): the k-th occurrence strictly after t *)
CronAfterNth(schedule, t, k) ==
    LET occurrence == ((t \div schedule.every) + 1 + k) * schedule.every IN
    IF occurrence <= schedule.last THEN Some(occurrence) ELSE None

IntervalNext(self, transmission_count) ==
    IF self.repeat.tag = "Times"
    THEN IF transmission_count >= self.repeat.n
         THEN None
         ELSE Some(self.first_transmission + self.interval * AsI32(transmission_count))
    ELSE Some(self.first_transmission + self.interval * AsI32(transmission_count))

CronNext(self, transmission_count) ==
    IF self.repeat.tag = "Times"
    THEN IF transmission_count >= self.repeat.n
         THEN None
         ELSE CronAfterNth(self.schedule, self.first_transmission_after, transmission_count)
    ELSE CronAfterNth(self.schedule, self.first_transmission_after, transmission_count)

DelayedNext(self, transmission_count) ==
    IF transmission_count = 0 THEN Some(self.transmit_at) ELSE None

SchedulePatternNext(self, transmission_count) ==
    CASE self.kind = "Delayed" -> DelayedNext(self, transmission_count)
      [] self.kind = "Interval" -> IntervalNext(self, transmission_count)
      [] self.kind = "Cron" -> CronNext(self, transmission_count)

(* MessageSchedule::new; the fresh Uuid is the argument id *)
MessageScheduleNew(schedule_pattern, id) ==
    [id |-> id,
     schedule_pattern |-> schedule_pattern,
     next |-> CASE schedule_pattern.kind = "Delayed" -> Some(schedule_pattern.transmit_at)
                [] schedule_pattern.kind = "Interval" -> Some(schedule_pattern.first_transmission)
                [] schedule_pattern.kind = "Cron" ->
                     CronAfterNth(schedule_pattern.schedule,
                                  schedule_pattern.first_transmission_after, 0),
     transmission_count |-> 0]

----------------------------------------------------------------------------
(* repository_in_memory.rs *)

Take(s, n) == SubSeq(s, 1, IF Len(s) < n THEN Len(s) ELSE n)

(* Mutant: the filter forgets to compare next with before *)
IsPolledWhenever(schedule, before) ==
    IF schedule.next = None THEN FALSE ELSE TRUE

(* poll_batch, the filter closure *)
IsPolled(schedule, before) ==
    IF schedule.next = None THEN FALSE ELSE schedule.next[1] <= before

store_schedule(stored, schedule) == Append(stored, schedule)

poll_batch(stored, before, batch_size) ==
    Take(SelectSeq(stored, LAMBDA schedule : IsPolled(schedule, before)), batch_size)

save(stored, schedule) ==
    [i \in DOMAIN stored |->
        IF stored[i].id = schedule.id THEN schedule ELSE stored[i]]

reschedule(stored, schedule_id) == stored

----------------------------------------------------------------------------
(* scheduler.rs: the engine's view of a schedule *)

AtDateTime(datetime) == [kind |-> "AtDateTime", datetime |-> datetime]

Periodic(next, interval, repeat) == [next |-> next, interval |-> interval, repeat |-> repeat]

PeriodicInterval(periodic) == [kind |-> "PeriodicInterval", periodic |-> periodic]

CronPattern(schedule, repeat) == [kind |-> "Cron", schedule |-> schedule, repeat |-> repeat]

(* The repository hands a stored schedule to the engine as the engine's   *)
(* MessageSchedule {id, schedule_pattern}: the periodic pattern carries    *)
(* the stored next and the stored repeat.                                  *)
EngineSchedule(stored_schedule) ==
    LET p == stored_schedule.schedule_pattern IN
    [id |-> stored_schedule.id,
     schedule_pattern |->
        CASE p.kind = "Delayed" -> AtDateTime(p.transmit_at)
          [] p.kind = "Interval" ->
                PeriodicInterval(Periodic(stored_schedule.next[1], p.interval, p.repeat))
          [] p.kind = "Cron" -> CronPattern(p.schedule, p.repeat)]

(* process_batch, the filter closure: the arms that do not panic *)
FilterPanics(schedule) ==
    schedule.schedule_pattern.kind \notin {"AtDateTime", "PeriodicInterval"}

FilterPasses(schedule, now) ==
    CASE schedule.schedule_pattern.kind = "AtDateTime" ->
            schedule.schedule_pattern.datetime < now
      [] schedule.schedule_pattern.kind = "PeriodicInterval" ->
            schedule.schedule_pattern.periodic.next < now

(* The instant a polled schedule is due at, as the filter reads it *)
Occurrence(schedule) ==
    CASE schedule.schedule_pattern.kind = "AtDateTime" ->
            schedule.schedule_pattern.datetime
      [] schedule.schedule_pattern.kind = "PeriodicInterval" ->
            schedule.schedule_pattern.periodic.next

(* MessageScheduler::transmit after transmitter.transmit returned: the     *)
(* repository call it makes and the metric it counts on that call's        *)
(* result ("" when it counts none).                                        *)
TransitionCall(schedule, op, next, repetitions, metric) ==
    [op |-> op, id |-> schedule.id, next |-> next,
     repetitions |-> repetitions, metric |-> metric]

(* the Ok(_) arm *)
AdvanceTransition(schedule) ==
    LET p == schedule.schedule_pattern IN
    CASE p.kind = "AtDateTime" ->
            TransitionCall(schedule, "mark_done", None, Infinitely, "MarkedDone")
      [] p.kind = "PeriodicInterval" ->
            LET period == p.periodic
                next_datetime == period.next + period.interval
            IN  CASE period.repeat.tag = "Infinitely" ->
                        TransitionCall(schedule, "set_next_periodic", Some(next_datetime),
                                       Infinitely, "DecrementedPeriodic")
                  [] period.repeat.tag = "Times" /\ period.repeat.n = 0 ->
                        TransitionCall(schedule, "mark_done", None, Infinitely, "MarkedDone")
                  [] period.repeat.tag = "Times" /\ period.repeat.n # 0 ->
                        TransitionCall(schedule, "set_next_periodic", Some(next_datetime),
                                       Times(period.repeat.n - 1), "")

(* the Err(transmission_err) arm *)
ReleaseTransition(schedule) ==
    TransitionCall(schedule, "reschedule", None, Infinitely, "Rescheduled")

(* Mutant: the advance is made whatever transmitter.transmit returned *)
StateTransitionAdvanceOnError(schedule, transmission_ok) ==
    AdvanceTransition(schedule)

(* Mutant: a failed transmission marks the schedule done instead of releasing it *)
StateTransitionDoneOnError(schedule, transmission_ok) ==
    IF transmission_ok
    THEN AdvanceTransition(schedule)
    ELSE TransitionCall(schedule, "mark_done", None, Infinitely, "MarkedDone")

(* Mutant: the schedule is released whatever transmitter.transmit returned *)
StateTransitionReleaseAlways(schedule, transmission_ok) ==
    ReleaseTransition(schedule)

StateTransition(schedule, transmission_ok) ==
    IF transmission_ok
    THEN AdvanceTransition(schedule)
    ELSE ReleaseTransition(schedule)

(* The Repository trait of scheduler.rs over the in-memory store *)
Stored(stored, schedule_id) ==
    LET i == CHOOSE i \in DOMAIN stored : stored[i].id = schedule_id IN stored[i]

IsStored(stored, schedule_id) == \E i \in DOMAIN stored : stored[i].id = schedule_id

mark_done(stored, schedule_id) ==
    IF ~IsStored(stored, schedule_id) THEN stored
    ELSE LET s == Stored(stored, schedule_id) IN
         save(stored, [s EXCEPT !.next = None,
                                !.transmission_count = @ + 1])

set_next_periodic(stored, schedule_id, next, repetitions) ==
    IF ~IsStored(stored, schedule_id) THEN stored
    ELSE LET s == Stored(stored, schedule_id) IN
         save(stored, [s EXCEPT !.next = Some(next),
                                !.transmission_count = @ + 1,
                                !.schedule_pattern.repeat = repetitions])

ApplyTransition(stored, t) ==
    CASE t.op = "mark_done" -> mark_done(stored, t.id)
      [] t.op = "set_next_periodic" -> set_next_periodic(stored, t.id, t.next[1], t.repetitions)
      [] t.op = "reschedule" -> reschedule(stored, t.id)

----------------------------------------------------------------------------
(* Log entries: repository and transmitter calls carry the function's     *)
(* name, metric events the MetricEvent's name; id is 0 where none applies. *)

Entry(name, id, ok) == [name |-> name, id |-> id, ok |-> ok]

SeqIds(s) == {s[i].id : i \in DOMAIN s}

FaultBudget ==
    faults.tx + faults.repo + faults.poll + faults.store + faults.stop < faults.allowed

Patterns ==
    {Delayed(1),
     Interval(0, 1, Infinitely),
     Interval(0, 1, Times(0)),
     Interval(0, 1, Times(1)),
     Cron(0, CronSchedule(1, MaxClock), Infinitely)}

----------------------------------------------------------------------------
(* Initial states *)

InitCommon ==
    /\ schedules = << >>
    /\ clock = 0
    /\ pc = [w \in AllEngines |-> "sleep"]
    /\ batch = [w \in AllEngines |-> << >>]
    /\ txres = [w \in AllEngines |-> FALSE]
    /\ log = [w \in AllEngines |-> << >>]
    /\ calls = [id \in Ids |-> 0]
    /\ delivered = [id \in Ids |-> 0]
    /\ advanced = [id \in Ids |-> 0]
    /\ ingested = [id \in Ids |-> None]
    /\ fired = [id \in Ids |-> {}]
    /\ facade = [log |-> << >>, ok |-> TRUE]

(* no failure has been injected yet; allowed is the number the run may see *)
InitFaults(allowed) ==
    faults = [tx |-> 0, repo |-> 0, poll |-> 0, store |-> 0, stop |-> 0,
              allowed |-> allowed]

Init == InitCommon /\ InitFaults(MaxFaults) /\ engines = {1}

InitTwo == InitCommon /\ InitFaults(MaxFaults) /\ engines = AllEngines

(* one engine in an environment that fails once more *)
InitRecovery == InitCommon /\ InitFaults(MaxFaults + 1) /\ engines = {1}

----------------------------------------------------------------------------
(* Actions *)

(* Mutant: Scheduled(true) is counted whatever store_schedule returned *)
ScheduleOutcomeCountsTrue(id, store_ok) ==
    [log |-> <<Entry("store_schedule", id, store_ok), Entry("Scheduled", 0, TRUE)>>,
     ok |-> store_ok]

(* MessageScheduler::schedule after MessageSchedule::new: the call it      *)
(* makes, the metric it counts and the result it returns (ok: Ok(()),      *)
(* otherwise the Err of store_schedule)                                    *)
ScheduleOutcome(id, store_ok) ==
    [log |-> <<Entry("store_schedule", id, store_ok), Entry("Scheduled", 0, store_ok)>>,
     ok |-> store_ok]

(* MessageScheduler::schedule; store_ok is the result of store_schedule *)
Schedule(pattern, store_ok) ==
    /\ Len(schedules) < MaxSchedules
    /\ store_ok \/ FaultBudget
    /\ LET id == Len(schedules) + 1 IN
        /\ schedules' = IF store_ok
                        THEN store_schedule(schedules, MessageScheduleNew(pattern, id))
                        ELSE schedules
        /\ ingested' = IF store_ok THEN [ingested EXCEPT ![id] = Some(pattern)] ELSE ingested
        /\ facade' = ScheduleOutcome(id, store_ok)
    /\ faults' = IF store_ok THEN faults ELSE [faults EXCEPT !.store = @ + 1]
    /\ UNCHANGED <<clock, pc, batch, txres, log, engines,
                   calls, delivered, advanced, fired>>

(* The clock moves on *)
Advance ==
    /\ clock < MaxClock
    /\ clock' = clock + 1
    /\ UNCHANGED <<facade, schedules, pc, batch, txres, log, engines, faults,
                   calls, delivered, advanced, ingested, fired>>

(* process_batch: poll_batch returned Ok. The repository polls with the   *)
(* clock's value as before. The log starts with the call, the metric and   *)
(* one "returned" entry for every schedule of the Vec the call returned.   *)
Poll(w) ==
    /\ w \in engines
    /\ pc[w] = "sleep"
    /\ LET polled == poll_batch(schedules, clock, BATCH_SIZE) IN
        /\ batch' = [batch EXCEPT ![w] =
                        [i \in DOMAIN polled |-> EngineSchedule(polled[i])]]
        /\ pc' = [pc EXCEPT ![w] = IF polled = << >> THEN "sleep" ELSE "batch"]
        /\ log' = [log EXCEPT ![w] =
                      <<Entry("poll_batch", 0, TRUE), Entry("Polled", 0, TRUE)>>
                        \o [i \in DOMAIN polled |-> Entry("returned", polled[i].id, TRUE)]]
    /\ UNCHANGED <<facade, schedules, clock, txres, engines, faults,
                   calls, delivered, advanced, ingested, fired>>

(* Mutant: an error of poll_batch ends the engine's loop *)
PollFailStopsLoop(w) ==
    /\ w \in engines
    /\ pc[w] = "sleep"
    /\ FaultBudget
    /\ faults' = [faults EXCEPT !.poll = @ + 1]
    /\ log' = [log EXCEPT ![w] = <<Entry("poll_batch", 0, FALSE), Entry("Polled", 0, FALSE)>>]
    /\ pc' = [pc EXCEPT ![w] = "panicked"]
    /\ UNCHANGED <<facade, schedules, clock, batch, txres, engines,
                   calls, delivered, advanced, ingested, fired>>

(* process_batch: poll_batch returned Err *)
PollFail(w) ==
    /\ w \in engines
    /\ pc[w] = "sleep"
    /\ FaultBudget
    /\ faults' = [faults EXCEPT !.poll = @ + 1]
    /\ log' = [log EXCEPT ![w] = <<Entry("poll_batch", 0, FALSE), Entry("Polled", 0, FALSE)>>]
    /\ UNCHANGED <<facade, schedules, clock, pc, batch, txres, engines,
                   calls, delivered, advanced, ingested, fired>>

Rest(w) == Tail(batch[w])

(* Mutant: a failed transmission ends the tick *)
AfterVisitAbortsOnError(w) ==
    IF Rest(w) = << >> \/ (pc[w] = "reconcile" /\ ~txres[w]) THEN "sleep" ELSE "batch"

AfterVisit(w) == IF Rest(w) = << >> THEN "sleep" ELSE "batch"

(* process_batch: the filter reaches a pattern it does not implement *)
FilterPanic(w) ==
    /\ w \in engines
    /\ pc[w] = "batch"
    /\ FilterPanics(batch[w][1])
    /\ pc' = [pc EXCEPT ![w] = "panicked"]
    /\ batch' = [batch EXCEPT ![w] = << >>]
    /\ UNCHANGED <<facade, schedules, clock, txres, log, engines, faults,
                   calls, delivered, advanced, ingested, fired>>

(* process_batch: the filter drops the schedule *)
FilterSkip(w) ==
    /\ w \in engines
    /\ pc[w] = "batch"
    /\ ~FilterPanics(batch[w][1])
    /\ ~FilterPasses(batch[w][1], clock)
    /\ batch' = [batch EXCEPT ![w] = Rest(w)]
    /\ pc' = [pc EXCEPT ![w] = AfterVisit(w)]
    /\ UNCHANGED <<facade, schedules, clock, txres, log, engines, faults,
                   calls, delivered, advanced, ingested, fired>>

(* transmit: the filter passes the schedule and transmitter.transmit is called *)
Transmit(w, ok) ==
    /\ w \in engines
    /\ pc[w] = "batch"
    /\ ~FilterPanics(batch[w][1])
    /\ FilterPasses(batch[w][1], clock)
    /\ ok \/ FaultBudget
    /\ calls[batch[w][1].id] < MaxCalls
    /\ LET id == batch[w][1].id IN
        /\ calls' = [calls EXCEPT ![id] = @ + 1]
        /\ delivered' = [delivered EXCEPT ![id] = IF ok THEN @ + 1 ELSE @]
        /\ log' = [log EXCEPT ![w] = Append(@, Entry("transmit", id, ok))]
        /\ fired' = [fired EXCEPT ![id] = @ \cup {Occurrence(batch[w][1])}]
    /\ faults' = IF ok THEN faults ELSE [faults EXCEPT !.tx = @ + 1]
    /\ txres' = [txres EXCEPT ![w] = ok]
    /\ pc' = [pc EXCEPT ![w] = "reconcile"]
    /\ UNCHANGED <<facade, schedules, clock, batch, engines, advanced, ingested>>

(* transmit: the repository call after the transmission, its metric, and  *)
(* process_batch's Transmitted metric on transmit's result                 *)
Reconcile(w, ok) ==
    /\ w \in engines
    /\ pc[w] = "reconcile"
    /\ ok \/ FaultBudget
    /\ LET t == StateTransition(batch[w][1], txres[w])
           result == txres[w] /\ ok
       IN
        /\ schedules' = IF ok THEN ApplyTransition(schedules, t) ELSE schedules
        /\ advanced' = [advanced EXCEPT ![t.id] =
                            IF ok /\ t.op # "reschedule" THEN @ + 1 ELSE @]
        /\ log' = [log EXCEPT ![w] =
                      @ \o <<Entry(t.op, t.id, ok)>>
                        \o (IF t.metric = "" THEN << >> ELSE <<Entry(t.metric, t.id, ok)>>)
                        \o <<Entry("Transmitted", t.id, result)>>]
    /\ faults' = IF ok THEN faults ELSE [faults EXCEPT !.repo = @ + 1]
    /\ batch' = [batch EXCEPT ![w] = Rest(w)]
    /\ txres' = [txres EXCEPT ![w] = FALSE]
    /\ pc' = [pc EXCEPT ![w] = AfterVisit(w)]
    /\ UNCHANGED <<facade, clock, engines, calls, delivered, ingested, fired>>

(* The engine stops in the middle of a tick and is started again *)
Stop(w) ==
    /\ w \in engines
    /\ pc[w] \in {"batch", "reconcile"}
    /\ FaultBudget
    /\ faults' = [faults EXCEPT !.stop = @ + 1]
    /\ pc' = [pc EXCEPT ![w] = "sleep"]
    /\ batch' = [batch EXCEPT ![w] = << >>]
    /\ txres' = [txres EXCEPT ![w] = FALSE]
    /\ UNCHANGED <<facade, schedules, clock, log, engines,
                   calls, delivered, advanced, ingested, fired>>

Engine(w) ==
    \/ Poll(w)
    \/ PollFail(w)
    \/ FilterPanic(w)
    \/ FilterSkip(w)
    \/ \E ok \in BOOLEAN : Transmit(w, ok)
    \/ \E ok \in BOOLEAN : Reconcile(w, ok)
    \/ Stop(w)

Next ==
    \/ \E pattern \in Patterns : \E store_ok \in BOOLEAN : Schedule(pattern, store_ok)
    \/ Advance
    \/ \E w \in AllEngines : Engine(w)

Spec == Init /\ [][Next]_vars

SpecTwo == InitTwo /\ [][Next]_vars

SpecRecovery == InitRecovery /\ [][Next]_vars

(* The scheduler when callers also hand in Interval patterns whose         *)
(* interval is zero or negative (Interval::new takes any chrono::Duration) *)
DegeneratePatterns ==
    {Interval(0, 0, Infinitely),
     Interval(1, -1, Times(1))}

NextIngest ==
    \/ \E pattern \in Patterns \cup DegeneratePatterns :
          \E store_ok \in BOOLEAN : Schedule(pattern, store_ok)
    \/ Advance
    \/ \E w \in AllEngines : Engine(w)

SpecIngest == Init /\ [][NextIngest]_vars

(* run() loops for ever and the clock moves on: every engine that can     *)
(* take a step eventually takes one.                                       *)
Fairness == WF_vars(Advance) /\ \A w \in AllEngines : WF_vars(Engine(w))

SpecFair == Init /\ [][Next]_vars /\ Fairness

----------------------------------------------------------------------------
(* The repository driven directly by a client, as test_store does: it      *)
(* stores schedules, polls with a batch size of its choice and saves the   *)
(* transmitted form of a stored schedule. batch[1] holds the schedules the *)
(* client has polled and not saved since, log[1] its last repository call. *)

(* MessageSchedule::transmitted: the schedule after one more transmission *)
transmitted(schedule) ==
    [schedule EXCEPT
        !.transmission_count = @ + 1,
        !.next = SchedulePatternNext(schedule.schedule_pattern,
                                     schedule.transmission_count + 1)]

PollCall(before, batch_size) ==
    [name |-> "poll_batch", before |-> before, batch_size |-> batch_size]

SaveCall(schedule) == [name |-> "save", schedule |-> schedule]

InitRepo == InitCommon /\ InitFaults(MaxFaults) /\ engines = {}

RepoPoll(batch_size) ==
    /\ batch' = [batch EXCEPT ![1] = poll_batch(schedules, clock, batch_size)]
    /\ log' = [log EXCEPT ![1] = <<PollCall(clock, batch_size)>>]
    /\ UNCHANGED <<facade, schedules, clock, pc, txres, engines, faults,
                   calls, delivered, advanced, ingested, fired>>

RepoSave(id) ==
    /\ IsStored(schedules, id)
    /\ Stored(schedules, id).transmission_count < U32Max
    /\ LET schedule == transmitted(Stored(schedules, id)) IN
        /\ schedules' = save(schedules, schedule)
        /\ log' = [log EXCEPT ![1] = <<SaveCall(schedule)>>]
    /\ batch' = [batch EXCEPT ![1] = SelectSeq(@, LAMBDA polled : polled.id # id)]
    /\ UNCHANGED <<facade, clock, pc, txres, engines, faults,
                   calls, delivered, advanced, ingested, fired>>

NextRepo ==
    \/ \E pattern \in Patterns : Schedule(pattern, TRUE)
    \/ Advance
    \/ \E batch_size \in 0..MaxSchedules : RepoPoll(batch_size)
    \/ \E id \in Ids : RepoSave(id)

SpecRepo == InitRepo /\ [][NextRepo]_vars

----------------------------------------------------------------------------
(* Properties *)

NextOf(id) == Stored(schedules, id).next

IsDone(id) == IsStored(schedules, id) /\ NextOf(id) = None

NoFaults ==
    /\ faults.tx = 0
    /\ faults.repo = 0
    /\ faults.poll = 0
    /\ faults.store = 0
    /\ faults.stop = 0

IsAdvance(entry) == entry.name \in {"mark_done", "set_next_periodic"}

(* C1: no advance without transmit. For every schedule the number of       *)
(* recorded advances, and its stored transmission_count, never exceed the  *)
(* number of its successful transmits (also when the engine stops between  *)
(* the transmit and the repository update), and every advance call of a    *)
(* tick directly follows a successful transmit of the same schedule.       *)
C1_NoAdvanceWithoutTransmit ==
    /\ \A id \in Ids :
        /\ advanced[id] <= delivered[id]
        /\ IsStored(schedules, id) =>
              Stored(schedules, id).transmission_count <= delivered[id]
    /\ \A w \in AllEngines : \A i \in DOMAIN log[w] :
        IsAdvance(log[w][i]) =>
            i > 1 /\ log[w][i - 1] = Entry("transmit", log[w][i].id, TRUE)

(* C1 witness: a schedule was advanced once, then transmitted again, and   *)
(* the engine stopped before the repository update.                        *)
C1_Witness ==
    \E id \in Ids :
        advanced[id] >= 1 /\ delivered[id] > advanced[id] /\ faults.stop = 1

(* C2: claim exclusivity. A schedule returned by poll_batch is held by at  *)
(* most one worker: no id is in the polled batches of two engines at once. *)
C2_ClaimExclusivity ==
    \A id \in Ids :
        Cardinality({w \in AllEngines : id \in SeqIds(batch[w])}) <= 1

(* C3: no double dispatch across workers. With two engines, only Delayed   *)
(* schedules and a transmitter and repository that always succeed, transmit *)
(* is invoked at most once per schedule id.                                *)
C3_NoDoubleDispatch ==
    (NoFaults /\ \A id \in Ids :
                    ingested[id] # None => ingested[id][1].kind = "Delayed")
        => \A id \in Ids : calls[id] <= 1

(* C4: at-least-once. For every stored schedule and every occurrence t of  *)
(* its next_fire_time sequence, once the clock has passed t, transmit is   *)
(* eventually invoked for that occurrence.                                 *)
C4_AtLeastOnce ==
    \A id \in Ids : \A k \in 0..MaxCalls : \A t \in 0..MaxClock :
        (/\ ingested[id] # None
         /\ SchedulePatternNext(ingested[id][1], k) = Some(t)
         /\ t < clock)
            ~> (t \in fired[id])

(* C5: terminality. Once a schedule is Done (its next is None), no step    *)
(* invokes transmit for its id and no engine holds it in a polled batch.   *)
C5_Terminality ==
    [][\A id \in Ids :
          IsDone(id) =>
              /\ calls'[id] = calls[id]
              /\ \A w \in AllEngines : id \notin SeqIds(batch'[w])]_vars

(* C6: repeat exhaustion (bound). With a repository that always succeeds,  *)
(* a schedule created with repeat Times(n) is transmitted at most n times  *)
(* (never for Times(0)), and it is terminal as soon as n transmissions     *)
(* have been recorded.                                                     *)
C6_RepeatBound ==
    faults.repo = 0 =>
        \A id \in Ids :
            (ingested[id] # None /\ ingested[id][1].kind # "Delayed"
                /\ ingested[id][1].repeat.tag = "Times") =>
                /\ delivered[id] <= ingested[id][1].repeat.n
                /\ (/\ Stored(schedules, id).transmission_count >= 1
                    /\ Stored(schedules, id).transmission_count >= ingested[id][1].repeat.n)
                      => NextOf(id) = None

(* C7: repeat exhaustion (completion). With a transmitter and repository   *)
(* that always succeed, an Interval schedule created with Times(n), n >= 1, *)
(* that has reached Done was transmitted exactly n times.                  *)
C7_RepeatCompletion ==
    NoFaults =>
        \A id \in Ids :
            (/\ ingested[id] # None
             /\ ingested[id][1].kind = "Interval"
             /\ ingested[id][1].repeat.tag = "Times"
             /\ ingested[id][1].repeat.n >= 1
             /\ IsDone(id))
                => calls[id] = ingested[id][1].repeat.n

(* C8: derived next. In every state of the store each schedule satisfies   *)
(* next = next_fire_time(pattern, transmission_count), for the pattern it  *)
(* was created with.                                                       *)
C8_DerivedNext ==
    \A i \in DOMAIN schedules :
        schedules[i].next =
            SchedulePatternNext(ingested[schedules[i].id][1],
                                schedules[i].transmission_count)

(* C9: no early fire. A schedule in a polled batch has a stored next that  *)
(* is present and not later than the clock; transmit is invoked only for   *)
(* such a schedule; and a stored schedule whose next is later than the     *)
(* clock is left as it is by every step.                                   *)
C9_NoEarlyFire ==
    [][/\ \A w \in AllEngines : \A i \in DOMAIN batch[w] :
            /\ NextOf(batch[w][i].id) # None
            /\ NextOf(batch[w][i].id)[1] <= clock
       /\ \A id \in Ids :
            calls'[id] # calls[id] =>
                /\ IsStored(schedules, id)
                /\ NextOf(id) # None
                /\ NextOf(id)[1] <= clock
       /\ \A i \in DOMAIN schedules :
            (schedules[i].next # None /\ schedules[i].next[1] > clock) =>
                /\ schedules'[i] = schedules[i]
                /\ calls'[schedules[i].id] = calls[schedules[i].id]]_vars

(* C9 witness: a tick has polled while a stored schedule was not yet due;  *)
(* the schedule was not transmitted.                                       *)
C9_Witness ==
    \E id \in Ids :
        /\ IsStored(schedules, id)
        /\ NextOf(id) # None
        /\ NextOf(id)[1] > clock
        /\ calls[id] = 0
        /\ log[1] # << >>
        /\ log[1][1] = Entry("poll_batch", 0, TRUE)

(* C10: transmit failure releases without advancing. When transmit         *)
(* returned Err the engine's next repository call is reschedule(id) and    *)
(* nothing else; it counts Rescheduled on that call's result, process_batch *)
(* sees the error (Transmitted(false)); and when reschedule succeeded the  *)
(* store is unchanged and the schedule is still Scheduled (next present).  *)
C10_FailureReleases ==
    [][\A w \in AllEngines :
          (pc[w] = "reconcile" /\ ~txres[w] /\ log'[w] # log[w]) =>
              LET id == batch[w][1].id
                  n == Len(log[w])
              IN  /\ log[w][n] = Entry("transmit", id, FALSE)
                  /\ Len(log'[w]) = n + 3
                  /\ log'[w][n + 1].name = "reschedule"
                  /\ log'[w][n + 1].id = id
                  /\ log'[w][n + 2] = Entry("Rescheduled", id, log'[w][n + 1].ok)
                  /\ log'[w][n + 3] = Entry("Transmitted", id, FALSE)
                  /\ log'[w][n + 1].ok =>
                        /\ schedules' = schedules
                        /\ NextOf(id) # None]_vars

(* C10 witness: a transmit failed and the reschedule after it succeeded *)
C10_Witness ==
    \E w \in AllEngines : \E i \in DOMAIN log[w] :
        /\ i > 1
        /\ log[w][i] = Entry("Rescheduled", log[w][i].id, TRUE)
        /\ log[w][i - 1] = Entry("reschedule", log[w][i].id, TRUE)

IsDelayed(id) == ingested[id] # None /\ ingested[id][1].kind = "Delayed"

(* the engine is between transmitter.transmit and the repository call for id *)
InReconcile(id) ==
    \E w \in engines : pc[w] = "reconcile" /\ batch[w][1].id = id

(* C11, the states: with a repository that always succeeds and an engine   *)
(* that is not stopped, a Delayed schedule without a successful transmit   *)
(* is still stored as created (next present, count 0), one whose transmit  *)
(* succeeded is Done with count 1 as soon as the engine has reconciled it, *)
(* and the transmit calls made for it are that one success plus the        *)
(* failures before it.                                                     *)
C11_States ==
    \A id \in Ids :
        (IsDelayed(id) /\ faults.repo = 0 /\ faults.stop = 0) =>
            /\ delivered[id] <= 1
            /\ calls[id] <= delivered[id] + faults.tx
            /\ delivered[id] = 0 =>
                  /\ NextOf(id) = Some(ingested[id][1].transmit_at)
                  /\ Stored(schedules, id).transmission_count = 0
            /\ (delivered[id] = 1 /\ ~InReconcile(id)) =>
                  /\ IsDone(id)
                  /\ Stored(schedules, id).transmission_count = 1
            /\ IsDone(id) => delivered[id] = 1

(* C11: retry after failed transmit. A Delayed schedule whose first        *)
(* transmit failed is still Scheduled after that tick and, while the       *)
(* engine runs, is transmitted again on a later tick; when the second      *)
(* transmit succeeds it ends Done after exactly 2 transmit calls.          *)
C11_RetryAfterFailure ==
    /\ []C11_States
    /\ \A id \in Ids :
          (IsDelayed(id) /\ calls[id] = 1 /\ delivered[id] = 0 /\ ~InReconcile(id))
              ~> (calls[id] >= 2)

IsUpdate(entry) == entry.name \in {"mark_done", "set_next_periodic", "reschedule"}

(* the false metric that belongs to a failed repository update *)
IsFalseMetricOf(metric, update) ==
    /\ metric.id = update.id
    /\ ~metric.ok
    /\ \/ update.name = "mark_done" /\ metric.name = "MarkedDone"
       \/ update.name = "set_next_periodic"
            /\ metric.name \in {"AdvancedPeriodic", "DecrementedPeriodic"}
       \/ update.name = "reschedule" /\ metric.name = "Rescheduled"

(* an advance of id failed after a successful transmit (no engine stop     *)
(* explains the missing advance and the engine is past the update)         *)
AdvanceFailed(id) ==
    /\ faults.stop = 0
    /\ delivered[id] > advanced[id]
    /\ ~InReconcile(id)

(* C12: reconciliation failure leaves the claim stuck. When the repository *)
(* update after a transmit fails, the engine makes that one call, counts   *)
(* the corresponding false metric once, returns an error (process_batch    *)
(* counts Transmitted(false)) and leaves the store as it is; and a         *)
(* schedule whose advance failed is not transmitted again by a later tick. *)
C12_ReconcileFailureSticks ==
    [][/\ \A w \in AllEngines :
            (pc[w] = "reconcile" /\ pc'[w] # "reconcile" /\ faults'.repo # faults.repo) =>
                LET id == batch[w][1].id
                    n == Len(log[w])
                IN  /\ Len(log'[w]) = n + 3
                    /\ IsUpdate(log'[w][n + 1])
                    /\ log'[w][n + 1].id = id
                    /\ ~log'[w][n + 1].ok
                    /\ IsFalseMetricOf(log'[w][n + 2], log'[w][n + 1])
                    /\ log'[w][n + 3] = Entry("Transmitted", id, FALSE)
                    /\ schedules' = schedules
       /\ \A id \in Ids :
            AdvanceFailed(id) => calls'[id] = calls[id]]_vars

PollFailLog == <<Entry("poll_batch", 0, FALSE), Entry("Polled", 0, FALSE)>>

(* C13: poll failure aborts only the tick. The step in which poll_batch    *)
(* returns Err counts Polled(false) once and nothing else, invokes no      *)
(* transmit and no repository update, changes no schedule, and leaves the  *)
(* engine where the next tick starts; a tick whose poll failed never gets  *)
(* further calls or metrics.                                               *)
C13_PollFailureAbortsTick ==
    [][/\ faults'.poll # faults.poll =>
            /\ \E w \in engines :
                  /\ pc[w] = "sleep"
                  /\ log'[w] = PollFailLog
                  /\ batch'[w] = << >>
                  /\ pc'[w] = "sleep"
            /\ schedules' = schedules
            /\ calls' = calls
            /\ delivered' = delivered
            /\ advanced' = advanced
       /\ \A w \in engines :
            (log'[w] # << >> /\ log'[w][1] = Entry("poll_batch", 0, FALSE)) =>
                /\ log'[w] = PollFailLog
                /\ pc'[w] = "sleep"]_vars

(* C13 witness: the last tick's poll failed while a schedule was due and   *)
(* not yet transmitted.                                                    *)
C13_Witness ==
    /\ log[1] = PollFailLog
    /\ pc[1] = "sleep"
    /\ faults.poll = 1
    /\ \E id \in Ids :
          /\ IsStored(schedules, id)
          /\ NextOf(id) # None
          /\ NextOf(id)[1] < clock
          /\ calls[id] = 0

(* C14: per-schedule error isolation. Whatever the result of a transmit    *)
(* and of the repository update after it, the engine goes on with the rest *)
(* of the polled batch (and the tick ends normally when nothing is left);  *)
(* a polled schedule leaves the batch without a transmit only when the     *)
(* filter finds it not due, never because an earlier schedule failed.      *)
C14_ErrorIsolation ==
    [][\A w \in engines :
          /\ (pc[w] = "reconcile" /\ log'[w] # log[w]) =>
                /\ log'[w][Len(log'[w])].name = "Transmitted"
                /\ batch'[w] = Tail(batch[w])
                /\ pc'[w] = IF Tail(batch[w]) = << >> THEN "sleep" ELSE "batch"
          /\ (pc[w] = "batch" /\ pc'[w] = "reconcile") =>
                /\ batch'[w] = batch[w]
                /\ log'[w][Len(log'[w])].name = "transmit"
                /\ log'[w][Len(log'[w])].id = batch[w][1].id
          /\ (pc[w] = "batch" /\ batch'[w] # batch[w] /\ pc'[w] \in {"batch", "sleep"}
                /\ faults'.stop = faults.stop) =>
                /\ ~FilterPasses(batch[w][1], clock)
                /\ batch'[w] = Tail(batch[w])
          /\ (pc[w] = "batch" /\ ~FilterPanics(batch[w][1])
                /\ FilterPasses(batch[w][1], clock)
                /\ calls[batch[w][1].id] < MaxCalls) =>
                ENABLED Transmit(w, TRUE)]_vars

(* C14 witness: in one tick the transmit of one schedule failed and the    *)
(* next schedule of the batch was transmitted and marked done.             *)
C14_Witness ==
    \E i \in DOMAIN log[1] : \E j \in DOMAIN log[1] :
        /\ log[1][i].name = "Transmitted"
        /\ ~log[1][i].ok
        /\ j > i + 1
        /\ log[1][j].name = "Transmitted"
        /\ log[1][j].ok
        /\ log[1][j].id # log[1][i].id
        /\ log[1][i + 1] = Entry("transmit", log[1][j].id, TRUE)
        /\ pc[1] = "sleep"

(* C15: ingestion outcome. A call of schedule(pattern, message) calls      *)
(* store_schedule exactly once, never the transmitter, counts exactly one  *)
(* Scheduled(ok) metric with ok the result of the store, and returns Ok    *)
(* iff the store succeeded; the schedule is in the store iff it did.       *)
C15_IngestionOutcome ==
    [][(Len(schedules') # Len(schedules) \/ faults'.store # faults.store) =>
          LET store_ok == faults'.store = faults.store
              id == Len(schedules) + 1
          IN  /\ facade'.log = <<Entry("store_schedule", id, store_ok),
                                 Entry("Scheduled", 0, store_ok)>>
              /\ facade'.ok = store_ok
              /\ store_ok => /\ Len(schedules') = Len(schedules) + 1
                             /\ schedules'[id].id = id
                             /\ SubSeq(schedules', 1, Len(schedules)) = schedules
              /\ ~store_ok => schedules' = schedules
              /\ calls' = calls
              /\ delivered' = delivered
              /\ log' = log]_vars

(* C15 witness: one schedule() call stored a schedule and a later one      *)
(* failed in the store.                                                    *)
C15_Witness ==
    /\ Len(schedules) >= 1
    /\ faults.store = 1
    /\ ~facade.ok
    /\ facade.log[2] = Entry("Scheduled", 0, FALSE)

(* C16: creation state. The schedule that a successful schedule() call     *)
(* adds to the store has transmission_count = 0 and                        *)
(* next = next_fire_time(pattern, 0), for every pattern kind and every     *)
(* repeat value, Times(0) included.                                        *)
C16_CreationState ==
    [][Len(schedules') > Len(schedules) =>
          LET created == schedules'[Len(schedules')] IN
              /\ created.transmission_count = 0
              /\ created.schedule_pattern = ingested'[created.id][1]
              /\ created.next = SchedulePatternNext(created.schedule_pattern, 0)]_vars

(* a tick of engine w has polled successfully and has come to its end *)
TickDone(w) ==
    /\ pc[w] = "sleep"
    /\ log[w] # << >>
    /\ log[w][1] = Entry("poll_batch", 0, TRUE)

(* the ids of the schedules poll_batch returned to the tick *)
Returned(w) == {log[w][i].id : i \in {j \in DOMAIN log[w] : log[w][j].name = "returned"}}

(* how often the tick's log holds the successful entry name for id *)
Count(w, name, id) ==
    Cardinality({i \in DOMAIN log[w] : log[w][i] = Entry(name, id, TRUE)})

(* C17: successful tick over due Delayed schedules. When poll_batch        *)
(* returned k Delayed schedules and the transmitter and the repository     *)
(* succeed, the finished tick has counted Polled(true) once, has invoked   *)
(* transmit once for each of the k schedules and for no other, has marked  *)
(* exactly those done with one MarkedDone(true) and one Transmitted(true)  *)
(* each, and each of them is Done with transmission_count = 1.             *)
C17_SuccessfulDelayedTick ==
    \A w \in engines :
        (TickDone(w) /\ NoFaults /\ \A id \in Returned(w) : IsDelayed(id)) =>
            /\ Count(w, "Polled", 0) = 1
            /\ \A id \in Ids :
                 LET k == IF id \in Returned(w) THEN 1 ELSE 0 IN
                    /\ Count(w, "transmit", id) = k
                    /\ Count(w, "mark_done", id) = k
                    /\ Count(w, "MarkedDone", id) = k
                    /\ Count(w, "Transmitted", id) = k
            /\ \A id \in Returned(w) :
                    /\ IsDone(id)
                    /\ Stored(schedules, id).transmission_count = 1

(* C18: metric ordering on success. In every tick's log a successful       *)
(* transmit is followed first by Transmitted(true) for that schedule and   *)
(* then by the repository call that advances it (mark_done or              *)
(* set_next_periodic): the advance call directly follows Transmitted(true) *)
(* and its own metric comes after it.                                      *)
C18_TransmittedBeforeSave ==
    \A w \in engines : \A i \in DOMAIN log[w] :
        /\ IsAdvance(log[w][i]) =>
              /\ i > 2
              /\ log[w][i - 2] = Entry("transmit", log[w][i].id, TRUE)
              /\ log[w][i - 1] = Entry("Transmitted", log[w][i].id, TRUE)
        /\ (log[w][i].name = "Transmitted" /\ log[w][i].ok) =>
              /\ i > 1
              /\ log[w][i - 1] = Entry("transmit", log[w][i].id, TRUE)

(* the client's step is a call of poll_batch / of save *)
IsPollStep ==
    /\ <<batch[1], log[1]>> # <<batch'[1], log'[1]>>
    /\ log'[1] # << >>
    /\ log'[1][1].name = "poll_batch"

IsSaveStep ==
    /\ <<schedules, batch[1], log[1]>> # <<schedules', batch'[1], log'[1]>>
    /\ log'[1] # << >>
    /\ log'[1][1].name = "save"

(* C19: poll_batch(before, limit) returns at most limit schedules; every   *)
(* returned schedule is a stored one that was not held by an earlier poll  *)
(* (Scheduled) and had a present next <= before at the call; and when the  *)
(* call returns every returned schedule is claimed in the store (Doing):   *)
(* polling again with the same before does not return it.                  *)
C19_PollBatchClaims ==
    [][IsPollStep =>
          LET call == log'[1][1]
              returned == batch'[1]
          IN  /\ Len(returned) <= call.batch_size
              /\ \A i \in DOMAIN returned :
                    /\ \E j \in DOMAIN schedules : schedules[j] = returned[i]
                    /\ returned[i].next # None
                    /\ returned[i].next[1] <= call.before
                    /\ returned[i].id \notin SeqIds(batch[1])
                    /\ returned[i].id \notin
                          SeqIds(poll_batch(schedules', call.before, MaxSchedules))]_vars

(* C20: save(schedule) changes the stored schedule only when the caller    *)
(* holds the claim on its id (it polled the schedule and has not saved it  *)
(* since); a save for a schedule that is not claimed leaves the store      *)
(* unchanged.                                                              *)
C20_SaveNeedsClaim ==
    [][IsSaveStep =>
          (log'[1][1].schedule.id \notin SeqIds(batch[1]) => schedules' = schedules)]_vars

(* C21: bounded duplication. With one engine, the successful transmits of  *)
(* a schedule that no advance has followed are all for its current         *)
(* occurrence; there are never more than two of them: the occurrence is    *)
(* re-transmitted at most once after an update that did not take effect    *)
(* (engine stop before the update, or update error).                       *)
C21_BoundedDuplication ==
    \A id \in Ids : delivered[id] <= advanced[id] + 2

(* C22: degenerate interval rejected. No stored schedule has an Interval   *)
(* pattern with interval <= 0, and a schedule() call with such a pattern   *)
(* returns an error and leaves the store as it is.                         *)
C22_DegenerateIntervalRejected ==
    /\ \A i \in DOMAIN schedules :
          schedules[i].schedule_pattern.kind = "Interval" =>
              schedules[i].schedule_pattern.interval > 0
    /\ \A id \in Ids :
          (ingested[id] # None /\ ingested[id][1].kind = "Interval") =>
              ingested[id][1].interval > 0

(* next_fire_time is monotone at count k for pattern *)
MonotoneAt(pattern, k) ==
    LET this == SchedulePatternNext(pattern, k)
        following == SchedulePatternNext(pattern, k + 1)
    IN  /\ (this # None /\ following # None) => following[1] > this[1]
        /\ this = None => following = None
        /\ (pattern.kind = "Interval" /\ this # None) =>
              this[1] = pattern.first_transmission + k * pattern.interval

(* C23: monotone fire times. For every stored pattern and every            *)
(* transmission count k a stored schedule reaches in the u32 range, a      *)
(* present next_fire_time(pattern, k + 1) is strictly later than a present *)
(* next_fire_time(pattern, k), None stays None, and for Interval the value *)
(* is first_transmission + k * interval without wrap-around of k.          *)
C23_MonotoneFireTimes ==
    \A i \in DOMAIN schedules :
        schedules[i].transmission_count < U32Max =>
            MonotoneAt(schedules[i].schedule_pattern, schedules[i].transmission_count)


(* the engine's step is a successful mark_done of id *)
MarksDone(w, id) ==
    /\ pc[w] = "reconcile"
    /\ Len(log'[w]) > Len(log[w])
    /\ log'[w][Len(log[w]) + 1] = Entry("mark_done", id, TRUE)

(* C24: terminal invariant. A schedule the engine marks done has next =    *)
(* None; and a stored schedule whose next is None is terminal: it stays    *)
(* stored and its next, transmission_count and pattern never change again. *)
C24_TerminalInvariant ==
    [][/\ \A w \in engines : \A id \in Ids :
            MarksDone(w, id) => (IsStored(schedules', id) /\ Stored(schedules', id).next = None)
       /\ \A id \in Ids :
            IsDone(id) => (IsStored(schedules', id) /\ Stored(schedules', id) = Stored(schedules, id))]_vars


(* the engines that are between transmit and the repository update of id *)
PassInProgress(id) ==
    {w \in engines : pc[w] = "reconcile" /\ batch[w][1].id = id}

(* C25: per-schedule fire ordering. In every interleaving of the engines,  *)
(* at most one transmit-and-reconcile pass is in progress for a schedule   *)
(* id, and a transmit for the schedule starts only when no pass for it is  *)
(* in progress (fire k is reconciled before fire k+1 is transmitted).      *)
C25_FireOrdering ==
    [][\A id \in Ids :
          /\ Cardinality(PassInProgress(id)') <= 1
          /\ calls'[id] # calls[id] => PassInProgress(id) = {}]_vars


(* C26: poll_batch is authoritative. When an engine that was not stopped   *)
(* has finished a tick, every schedule poll_batch returned to that tick,   *)
(* one whose next equals the clock included, has had its transmit and its  *)
(* repository update in that tick; none is dropped by a second due-filter. *)
C26_PollAuthoritative ==
    \A w \in engines :
        (TickDone(w) /\ faults.stop = 0) =>
            \A id \in Returned(w) :
                /\ \E i \in DOMAIN log[w] :
                      log[w][i].name = "transmit" /\ log[w][i].id = id
                /\ \E i \in DOMAIN log[w] :
                      IsUpdate(log[w][i]) /\ log[w][i].id = id


(* C27: uniform pattern handling. No tick panics because of a schedule's   *)
(* pattern kind: an engine is never left in the panicked state, and a Cron *)
(* schedule poll_batch returned to a finished tick has been transmitted by *)
(* that tick.                                                              *)
C27_UniformPatterns ==
    \A w \in engines :
        /\ pc[w] # "panicked"
        /\ (TickDone(w) /\ faults.stop = 0) =>
              \A id \in Returned(w) :
                  ingested[id][1].kind = "Cron" =>
                      \E i \in DOMAIN log[w] :
                          log[w][i].name = "transmit" /\ log[w][i].id = id


(* the engine's step is the repository update after a successful transmit *)
AdvanceStep(w) ==
    /\ pc[w] = "reconcile"
    /\ txres[w]
    /\ faults'.stop = faults.stop
    /\ log'[w] # log[w]

(* C28: advance outcome and its metric. After a successful transmit the    *)
(* schedule is stored as done (next None) iff next_fire_time(pattern,      *)
(* transmission_count + 1) is None and with a next otherwise, and exactly  *)
(* one reconciliation metric is counted for it: MarkedDone(ok) in the done *)
(* case, the periodic-advance metric (ok) otherwise, ok being the result   *)
(* of the update; for Infinitely and for every Times(n).                   *)
C28_AdvanceOutcome ==
    [][\A w \in engines :
          AdvanceStep(w) =>
              LET id == batch[w][1].id
                  s == Stored(schedules, id)
                  done == SchedulePatternNext(ingested[id][1],
                                              s.transmission_count + 1) = None
                  n == Len(log[w])
              IN  /\ Len(log'[w]) = n + 3
                  /\ IsAdvance(log'[w][n + 1])
                  /\ log'[w][n + 2].id = id
                  /\ log'[w][n + 2].ok = log'[w][n + 1].ok
                  /\ done => log'[w][n + 2].name = "MarkedDone"
                  /\ ~done => log'[w][n + 2].name \in {"AdvancedPeriodic", "DecrementedPeriodic"}
                  /\ log'[w][n + 1].ok =>
                        (Stored(schedules', id).next = None) = done]_vars


(* the transmit call the tick's i-th log entry belongs to (0: none) *)
TransmitOf(w, i) ==
    LET before == {j \in 1..(i - 1) : log[w][j].name = "transmit"} IN
    IF before = {} THEN 0 ELSE CHOOSE j \in before : \A k \in before : k <= j

(* C29: the Transmitted metric reflects the transmitter. Every transmit    *)
(* call of a tick has at most one Transmitted metric, every Transmitted    *)
(* metric carries the result of the transmit call it follows, whatever the *)
(* later repository update returned, and Transmitted(false) is counted     *)
(* before reschedule is called.                                            *)
C29_TransmittedReflectsTransmitter ==
    \A w \in engines : \A i \in DOMAIN log[w] :
        /\ log[w][i].name = "Transmitted" =>
              LET j == TransmitOf(w, i) IN
                  /\ j # 0
                  /\ log[w][j].id = log[w][i].id
                  /\ log[w][j].ok = log[w][i].ok
                  /\ \A k \in (j + 1)..(i - 1) : log[w][k].name # "Transmitted"
        /\ log[w][i].name = "reschedule" =>
              /\ i > 1
              /\ log[w][i - 1] = Entry("Transmitted", log[w][i].id, FALSE)


(* C30: one transmit, one repository update per pass. In a tick's log      *)
(* every transmit call is followed by exactly one repository update for    *)
(* the same schedule before the pass ends: the advance (mark_done or       *)
(* set_next_periodic) when the transmit succeeded, reschedule when it      *)
(* failed; no update is made without the transmit call before it; and the  *)
(* pass returns Ok (the tick counts Transmitted(true)) iff the transmit    *)
(* and that update both succeeded.                                         *)
C30_OneTransmitOneUpdate ==
    \A w \in engines : \A i \in DOMAIN log[w] :
        /\ (log[w][i].name = "transmit" /\ i < Len(log[w])) =>
              LET update == log[w][i + 1]
                  result == Entry("Transmitted", log[w][i].id, log[w][i].ok /\ update.ok)
              IN  /\ IsUpdate(update)
                  /\ update.id = log[w][i].id
                  /\ IsAdvance(update) <=> log[w][i].ok
                  /\ \E k \in (i + 2)..(i + 3) :
                        /\ k <= Len(log[w])
                        /\ log[w][k] = result
                        /\ \A m \in (i + 2)..(k - 1) :
                              ~IsUpdate(log[w][m]) /\ log[w][m].name # "transmit"
        /\ IsUpdate(log[w][i]) =>
              /\ i > 1
              /\ log[w][i - 1].name = "transmit"

(* a pass whose transmit succeeded and whose update failed returned Err,   *)
(* next to a pass of the same tick that returned Ok                        *)
C30_Witness ==
    \E w \in engines : \E i, j \in DOMAIN log[w] :
        /\ i + 3 <= Len(log[w])
        /\ log[w][i].name = "transmit" /\ log[w][i].ok
        /\ IsAdvance(log[w][i + 1]) /\ ~log[w][i + 1].ok
        /\ log[w][i + 3] = Entry("Transmitted", log[w][i].id, FALSE)
        /\ log[w][j].name = "Transmitted" /\ log[w][j].ok


IsInterval(id) == ingested[id] # None /\ ingested[id][1].kind = "Interval"

(* the k-th occurrence of the Interval schedule id *)
OccurrenceOf(id, k) ==
    ingested[id][1].first_transmission + k * ingested[id][1].interval

(* C31, the states: the occurrences transmitted for an Interval schedule   *)
(* are its first ones without a gap (all those already advanced over, and  *)
(* at most the one after them), a stored next is the occurrence after the  *)
(* advances made, and no tick holds two transmit calls for one id.         *)
C31_States ==
    /\ \A id \in Ids :
          (IsInterval(id) /\ IsStored(schedules, id)) =>
              /\ {OccurrenceOf(id, k) : k \in 0..(advanced[id] - 1)} \subseteq fired[id]
              /\ fired[id] \subseteq {OccurrenceOf(id, k) : k \in 0..advanced[id]}
              /\ NextOf(id) # None => NextOf(id)[1] = OccurrenceOf(id, advanced[id])
    /\ \A w \in engines : \A id \in Ids :
          Cardinality({i \in DOMAIN log[w] :
                          log[w][i].name = "transmit" /\ log[w][i].id = id}) <= 1

(* C31: catch-up without skipping. After a successful transmit of an       *)
(* Interval schedule the stored next is the previous next plus exactly one *)
(* interval, whatever the clock is; the tick drops a schedule from its     *)
(* batch only when its next is later than the clock (until then it is      *)
(* transmitted tick after tick); no occurrence is skipped and a tick       *)
(* transmits a schedule id at most once.                                   *)
C31_CatchUp ==
    [][/\ C31_States'
       /\ \A w \in engines :
            /\ (AdvanceStep(w) /\ IsInterval(batch[w][1].id)
                    /\ log'[w][Len(log[w]) + 1]
                          = Entry("set_next_periodic", batch[w][1].id, TRUE)) =>
                  LET id == batch[w][1].id IN
                      Stored(schedules', id).next =
                          Some(NextOf(id)[1] + ingested[id][1].interval)
            /\ (pc[w] = "batch" /\ batch'[w] # batch[w] /\ log'[w] = log[w]
                    /\ faults'.stop = faults.stop /\ pc'[w] # "panicked"
                    /\ IsInterval(batch[w][1].id)) =>
                  Occurrence(batch[w][1]) > clock]_vars

====
